---- MODULE Spec2Model ----
(***************************************************************************)
(* Model of cmd/search/http.go: handleIndex with parseRequest, and the two  *)
(* result renderers, renderWithContext and renderSummary, driven by the    *)
(* match callback that executeGrep invokes once per reported hit.          *)
(*                                                                         *)
(* Text is a sequence of chunks: a chunk is one character that the code    *)
(* treats specially (" ", "<", "&", ...) or a run of ordinary characters.  *)
(* The output buffer `out` is the sequence of writes made to the           *)
(* bufio.Writer, with every explicit Flush call recorded in place.         *)
(***************************************************************************)
EXTENDS Integers, Sequences, FiniteSets, TLC

\* ---------------------------------------------------------------- bounds
MaxEvents == 4
MaxLines == 3
MaxLineEvents == 2
MaxStream == 120
MaxCadence == 51
MaxRepeat == 1
MaxBurst == 7
MaxRequestEvents == 1

\* ------------------------------------------------------ program constants
FlushEvery == 50
FlushEarly == 5
StartTime == 1000
\* parseRequest: the context of a text request that names none, and the
\* largest context a request may name
DefaultContext == 2
MaxContext == 15
\* durations are counted in minutes
Hour == 60
\* parseRequest: the ceiling of maxAge when the server configures none, and
\* the ceiling of chart mode
DefaultMaxAge == 7 * 24 * Hour
ChartMaxAge == 24 * Hour

VARIABLES
    profile,      \* which family of requests and event streams is explored
    req,          \* the form values of the request
    mode,         \* parseRequest's `mode`: "text" (handleIndex) or "chart"
    oMaxAge,      \* o.MaxAge, the server's configured maximum age (0: none)
    index,        \* the *Index parseRequest returned
    parseErr,     \* the error parseRequest returned ("nil": none)
    status,       \* the HTTP status of the response (0: nothing written yet)
    reply,        \* the plain-text body http.Error wrote
    head,         \* handleIndex's writes to `writer` before the renderer runs
    tail,         \* handleIndex's writes to `writer` after the renderer returned
    invoked,      \* the renderers handleIndex has called, in order
    renderer,     \* "none", "context" (renderWithContext) or "summary" (renderSummary)
    pc,           \* "request": not handled yet; "streaming": inside executeGrep;
                  \* "done": the renderer returned; "responded": the handler returned
    events,       \* the events executeGrep has handed to the callback so far
    count,        \* local `count`
    lineCount,    \* local `lineCount` (renderWithContext)
    currentLines, \* local `currentLines` (renderSummary)
    lastName,     \* local `lastName`
    lookups,      \* the names MetadataFor was called with, in order
    out,          \* writes to bw, with the Flush calls, in order
    sent,         \* the writes bw has passed on to the underlying writer w
    bwErr,        \* bw's sticky error: the first error of a write to w ("nil": none)
    flushesInBlock, \* the Flush calls made by the events that continued the open block
    grepErr,      \* the error executeGrep returned ("nil": none)
    ret,          \* returned count
    retErr        \* returned error

vars == <<profile, req, mode, oMaxAge, index, parseErr, status, reply, head,
          tail, invoked, renderer, pc, events, count, lineCount, currentLines,
          lastName, lookups, out, sent, bwErr, flushesInBlock, grepErr, ret,
          retErr>>

\* what the handler's own steps leave alone
requestVars == <<profile, req, mode, oMaxAge, index, parseErr, status, reply,
                 head, tail, invoked>>

\* ------------------------------------------------------------------ text
NoErr == "nil"
Errors == {"context canceled", "signal: killed"}
Canceled == "context canceled"
\* the error of a write to a writer whose client has gone
SinkErr == "write: broken pipe"

RECURSIVE TrimRight(_)
\* bytes.TrimRight(line, " ")
TrimRight(line) ==
    IF Len(line) = 0 THEN line
    ELSE IF line[Len(line)] = " " THEN TrimRight(SubSeq(line, 1, Len(line) - 1))
    ELSE line

\* one character through template.HTMLEscape
EscapeChunk(c) ==
    CASE c = "<" -> "&lt;"
      [] c = ">" -> "&gt;"
      [] c = "&" -> "&amp;"
      [] c = "'" -> "&#39;"
      [] c = "\"" -> "&#34;"
      [] OTHER -> c

\* template.HTMLEscape / template.HTMLEscapeString
HTMLEscape(text) == [i \in 1..Len(text) |-> EscapeChunk(text[i])]

RECURSIVE DropTrailingEmpty(_)
\* the loop `for i := len(lines) - 1; i >= 0; i--`
DropTrailingEmpty(lines) ==
    IF Len(lines) = 0 THEN lines
    ELSE IF Len(lines[Len(lines)]) # 0 THEN lines
    ELSE DropTrailingEmpty(SubSeq(lines, 1, Len(lines) - 1))

RECURSIVE KeepNonEmpty(_)
\* the loop `for _, m := range matches`: trims each line, skips the empty ones
KeepNonEmpty(matches) ==
    IF Len(matches) = 0 THEN <<>>
    ELSE LET line == TrimRight(Head(matches))
         IN  IF Len(line) = 0 THEN KeepNonEmpty(Tail(matches))
             ELSE <<line>> \o KeepNonEmpty(Tail(matches))

\* the lines of a hit that renderWithContext emits
HitLines(matches) == DropTrailingEmpty(KeepNonEmpty(matches))

\* units.HumanDuration, on durations of whole hours (at least one)
HumanDuration(hours) ==
    IF hours = 1 THEN <<"About an hour">>
    ELSE IF hours < 48 THEN <<ToString(hours), " ", "hours">>
    ELSE IF hours < 24 * 7 * 2 THEN <<ToString(hours \div 24), " ", "days">>
    ELSE IF hours < 24 * 30 * 2 THEN <<ToString((hours \div 24) \div 7), " ", "weeks">>
    ELSE IF hours < 24 * 365 * 2 THEN <<ToString((hours \div 24) \div 30), " ", "months">>
    ELSE <<ToString((hours \div 24) \div 365), " ", "years">>

\* -------------------------------------------------------------- metadata
\* A *url.URL: nil, or a URL with its text.
NilURI == [set |-> FALSE, text |-> <<>>]
\* the zero Result
ZeroResult ==
    [FileType |-> <<>>, Trigger |-> <<>>, JobURI |-> NilURI, Name |-> <<>>,
     Number |-> 0, FailedAt |-> 0]

\* The names the resolver does not know.
Unknown == {"", "x"}
\* The names whose failure time the resolver does not know.
Undated == {"b"}

\* resultMeta.MetadataFor(name): the Result (the found flag is discarded by
\* both callers)
MetadataFor(name) ==
    IF name \in Unknown THEN ZeroResult
    ELSE [FileType |-> <<"junit">>,
          Trigger |-> <<"pull">>,
          JobURI |-> [set |-> TRUE, text |-> <<"https://prow/job?n=", name, "&", "x=1">>],
          Name |-> <<"e2e", "<", name, ">">>,
          Number |-> 7,
          FailedAt |-> IF name \in Undated THEN 0 ELSE StartTime - 3]

\* result.JobURI.String()
JobURIString(result) == result.JobURI.text

\* result.JobURI == nil
NoJobURI(result) == ~result.JobURI.set

\* !result.FailedAt.IsZero()
\* (variant: the IsZero test left out)
KnownAgeAlways(result) == TRUE
KnownAge(result) == result.FailedAt # 0

\* `age` in renderWithContext
ContextAge(result, start) ==
    IF KnownAge(result) THEN <<" ">> \o HumanDuration(start - result.FailedAt)
    ELSE <<>>

\* `age` in renderSummary
SummaryAge(result, start) ==
    IF KnownAge(result) THEN HumanDuration(start - result.FailedAt) \o <<" ", "ago">>
    ELSE <<>>

\* ---------------------------------------------------------------- writes
Flush == [t |-> "flush"]
Separator == [t |-> "separator"]
BlockClose == [t |-> "blockclose"]
TableOpen == [t |-> "tableopen"]
RowClose == [t |-> "rowclose"]

\* `<div class="mb-4">` and the <h5> header with the opening <pre>
ContextHeader(result, start) ==
    [t |-> "header",
     fileType |-> HTMLEscape(result.FileType),
     trigger |-> HTMLEscape(result.Trigger),
     href |-> HTMLEscape(JobURIString(result)),
     name |-> HTMLEscape(result.Name),
     number |-> result.Number,
     age |-> HTMLEscape(ContextAge(result, start))]

\* `<tr>` and the first three cells of a summary row
SummaryRow(result, start) ==
    [t |-> "row",
     fileType |-> HTMLEscape(result.FileType),
     href |-> HTMLEscape(JobURIString(result)),
     name |-> HTMLEscape(result.Name),
     number |-> result.Number,
     age |-> HTMLEscape(SummaryAge(result, start))]

\* `<td>%d</td>` with the hit count
HitsCell(n) == [t |-> "hits", n |-> n]

\* the escaped lines of one hit, and its "... %d lines not shown" notice
HitText(matches, moreLines) ==
    LET lines == HitLines(matches)
    IN  [t |-> "hit",
         lines |-> [i \in 1..Len(lines) |-> HTMLEscape(lines[i])],
         notShown |-> IF moreLines > 0 THEN moreLines ELSE 0]

\* ------------------------------------------------------- shared decisions
\* `count == 5 || count%50 == 0`
\* (variants: the `count == 5` test left out; the `count%50 == 0` test left out)
FlushDueCadenceOnly(c) == c % FlushEvery = 0
FlushDueEarlyOnly(c) == c = FlushEarly
FlushDue(c) == c = FlushEarly \/ c % FlushEvery = 0

\* `lastName == name`
\* (variant: the comparison always failing)
SameBlockNever(last, name) == FALSE
SameBlock(last, name) == last = name

\* `currentLines++`
\* (variant: counting the lines of the event instead of the event)
NextHitsByLines(cur, matches) == cur + Len(matches)
NextHits(cur, matches) == cur + 1

\* `if count > 0 { fmt.Fprintf(bw, "</pre></div>") }`
\* (variant: `count > 1`)
ContextCloseAfterFirst(buf, c) == IF c > 1 THEN Append(buf, BlockClose) ELSE buf
ContextClose(buf, c) == IF c > 0 THEN Append(buf, BlockClose) ELSE buf

\* `if count > 0 { <td>currentLines</td></tr> }`
SummaryClose(buf, c, cur) ==
    IF c > 0 THEN buf \o <<HitsCell(cur), RowClose>> ELSE buf

\* `bw.Flush()` after the stream; its error is logged and dropped
\* (variant: no Flush call after the stream)
FinalFlushSkipped(buf) == buf
FinalFlush(buf) == Append(buf, Flush)

\* `return count, err`: err is executeGrep's error
\* (variant: the error of the Flush call, which the model never fails)
ReturnedErrOfFlush(srcErr) == NoErr
ReturnedErr(srcErr) == srcErr

\* ----------------------------------------------------------------- the sink
\* the writes bw holds while it has no error: those made since the last
\* write to w
Pending(o, s) ==
    LET m == SelectSeq(o, LAMBDA w : w.t # "flush")
    IN  SubSeq(m, Len(s) + 1, Len(m))

\* whether writes to w can fail in this run
SinkOutcomes == IF profile = "burst" THEN {TRUE, FALSE} ELSE {TRUE}

\* bufio.Writer.Flush with `o` written so far, `s` passed on and sticky error
\* `e`; `ok`: whether w accepts the write. The result: <<passed on, error>>.
\* After an error bw drops every later write and Flush.
BufioFlush(o, s, e, ok) ==
    IF e # NoErr THEN <<s, e>>
    ELSE IF Len(Pending(o, s)) = 0 THEN <<s, e>>
    ELSE IF ok THEN <<s \o Pending(o, s), e>>
    ELSE <<s, SinkErr>>

\* ------------------------------------------------------------ the request
\* form values and patterns are sequences of characters
Digits == <<"0", "1", "2", "3", "4", "5", "6", "7", "8", "9">>
IsDigit(c) == \E i \in 1..Len(Digits) : Digits[i] = c
DigitVal(c) == (CHOOSE i \in 1..Len(Digits) : Digits[i] = c) - 1

RECURSIVE ParseUint(_)
\* the value of a non-empty run of digits
ParseUint(s) ==
    IF Len(s) = 0 THEN 0
    ELSE 10 * ParseUint(SubSeq(s, 1, Len(s) - 1)) + DigitVal(s[Len(s)])

\* the text after an optional sign
Unsigned(s) == IF Len(s) > 0 /\ s[1] \in {"+", "-"} THEN Tail(s) ELSE s
Negative(s) == Len(s) > 0 /\ s[1] = "-"

\* strconv.Atoi (values that fit an int)
Atoi(s) ==
    LET body == Unsigned(s)
    IN  IF Len(body) = 0 \/ \E i \in 1..Len(body) : ~IsDigit(body[i])
        THEN [ok |-> FALSE, n |-> 0]
        ELSE [ok |-> TRUE,
              n |-> IF Negative(s) THEN 0 - ParseUint(body) ELSE ParseUint(body)]

RECURSIVE UItoa(_)
UItoa(n) == IF n < 10 THEN <<Digits[n + 1]>>
            ELSE UItoa(n \div 10) \o <<Digits[(n % 10) + 1]>>
\* strconv.Itoa
Itoa(n) == IF n < 0 THEN <<"-">> \o UItoa(0 - n) ELSE UItoa(n)

\* the length of the longest prefix of s made of digits (digits = TRUE) or
\* of other characters (digits = FALSE)
RECURSIVE RunOf(_, _)
RunOf(s, digits) ==
    IF Len(s) = 0 \/ IsDigit(s[1]) # digits THEN 0
    ELSE 1 + RunOf(Tail(s), digits)

\* time.ParseDuration's unit table, in minutes (whole hours and minutes only)
UnitMinutes(unit) ==
    CASE unit = <<"h">> -> Hour
      [] unit = <<"m">> -> 1
      [] OTHER -> 0

RECURSIVE ParseGroups(_)
\* time.ParseDuration: the sum of the <number><unit> groups of s, -1 when a
\* group lacks its number or its unit or names a unit that does not exist
ParseGroups(s) ==
    IF Len(s) = 0 THEN 0
    ELSE LET nd == RunOf(s, TRUE)
             rest == SubSeq(s, nd + 1, Len(s))
             nu == RunOf(rest, FALSE)
             unit == SubSeq(rest, 1, nu)
             after == SubSeq(rest, nu + 1, Len(rest))
         IN  IF nd = 0 \/ nu = 0 \/ UnitMinutes(unit) = 0 THEN 0 - 1
             ELSE IF ParseGroups(after) < 0 THEN 0 - 1
             ELSE ParseUint(SubSeq(s, 1, nd)) * UnitMinutes(unit) + ParseGroups(after)

\* time.ParseDuration (durations without fractions)
ParseDuration(s) ==
    LET body == Unsigned(s)
    IN  IF body = <<"0">> THEN [ok |-> TRUE, d |-> 0]
        ELSE IF Len(body) = 0 \/ ParseGroups(body) < 0 THEN [ok |-> FALSE, d |-> 0]
        ELSE [ok |-> TRUE,
              d |-> IF Negative(s) THEN 0 - ParseGroups(body) ELSE ParseGroups(body)]

\* time.Duration.String for a positive number of whole minutes
DurationString(d) ==
    IF d >= Hour THEN Itoa(d \div Hour) \o <<"h">> \o Itoa(d % Hour) \o <<"m", "0", "s">>
    ELSE Itoa(d) \o <<"m", "0", "s">>

RECURSIVE ParenDepth(_, _)
\* the nesting depth after s, -1 once a ")" closes nothing
ParenDepth(s, d) ==
    IF d < 0 THEN 0 - 1
    ELSE IF Len(s) = 0 THEN d
    ELSE ParenDepth(Tail(s), IF s[1] = "(" THEN d + 1
                             ELSE IF s[1] = ")" THEN d - 1 ELSE d)

\* regexp.Compile succeeds (of the syntax, the pairing of parentheses)
Compiles(value) == ParenDepth(value, 0) = 0

\* the patterns parseRequest searches for in chart mode when the request
\* names none
ChartSearch ==
    << <<"could not create or restart template instance.*">>,
       <<"could not (wait for|get) build.*">>,
       <<"level=error.*timeout while waiting for state.*">>,
       <<"Container setup exited with code ., reason Error">>,
       <<"no providers available to validate pod">>,
       <<"Error deleting EBS volume .* since volume is currently attached">>,
       <<"clusteroperator/.* changed Degraded to True: .*">>,
       <<"Cluster operator .* is still updating.*">>,
       <<"Pod .* is not healthy">>,
       <<"failed: \\(.*">> >>

\* the job filter of chart mode when the request names none
ChartJob == <<"-", "e", "2", "e", "-">>

SearchTypes == <<"junit", "build-log", "all">>

\* `switch req.FormValue("type")`: the search type, "" when it is none of them
SearchTypeOf(type) ==
    CASE type = "junit" -> "junit"
      [] type = "build-log" -> "build-log"
      [] type \in {"all", ""} -> "all"
      [] OTHER -> ""

\* whether parseRequest compiles a job filter
FiltersJobs(name, m) == Len(name) > 0 \/ m = "chart"
JobFilter(name) == IF Len(name) = 0 THEN ChartJob ELSE name

\* `else if maxAge < 0`
MaxAgeRejected(maxAge) == maxAge < 0

\* (variant: chart mode has no ceiling of its own)
ServerMaxAgeUncapped(m, configured) ==
    IF configured = 0 THEN DefaultMaxAge ELSE configured
\* the ceiling of maxAge for the mode
ServerMaxAge(m, configured) ==
    LET maxAge == IF configured = 0 THEN DefaultMaxAge ELSE configured
    IN  IF m = "chart" /\ maxAge > ChartMaxAge THEN ChartMaxAge ELSE maxAge

\* `if index.MaxAge == 0 || index.MaxAge > maxAge`
ClampMaxAge(requested, maxAge) ==
    IF requested = 0 \/ requested > maxAge THEN maxAge ELSE requested

\* (variant: a context below -1 is let through)
ContextInRangeAbove(num) == num <= MaxContext
\* the negation of `num < -1 || num > 15`
ContextInRange(num) == num >= 0 - 1 /\ num <= MaxContext

\* the nil *Index
NilIndex == [isNil |-> TRUE]

ParseError(msg) == [err |-> msg, index |-> NilIndex]

\* parseRequest
ParseRequest(r, m, configured) ==
    LET search == IF Len(r.search) = 0 /\ m = "chart" THEN ChartSearch ELSE r.search
        age == ParseDuration(r.maxAge)
        requested == IF Len(r.maxAge) > 0 THEN age.d ELSE 0
        num == Atoi(r.context)
    IN  IF SearchTypeOf(r.type) = ""
        THEN ParseError("search must be 'junit', 'build-log', or 'all'")
        ELSE IF FiltersJobs(r.name, m) /\ ~Compiles(JobFilter(r.name))
        THEN ParseError("name is an invalid regular expression")
        ELSE IF Len(r.maxAge) > 0 /\ ~age.ok
        THEN ParseError("maxAge is an invalid duration")
        ELSE IF Len(r.maxAge) > 0 /\ MaxAgeRejected(age.d)
        THEN ParseError("maxAge must be non-negative")
        ELSE IF Len(r.context) > 0 /\ (~num.ok \/ ~ContextInRange(num.n))
        THEN ParseError("context must be a number between -1 and 15")
        ELSE [err |-> NoErr,
              index |-> [isNil |-> FALSE,
                         search |-> search,
                         searchType |-> SearchTypeOf(r.type),
                         job |-> IF FiltersJobs(r.name, m) THEN JobFilter(r.name)
                                 ELSE <<>>,
                         maxAge |-> ClampMaxAge(requested, ServerMaxAge(m, configured)),
                         context |-> IF Len(r.context) > 0 THEN num.n
                                     ELSE IF m = "text" THEN DefaultContext ELSE 0]]

\* ---------------------------------------------------------------- the page
Option(value, selected) == [value |-> value, selected |-> selected]

\* intSelected
IntSelected(current, expected) == IF current = expected THEN "selected" ELSE ""
\* durationSelected
DurationSelected(current, expected) == IF current = expected THEN "selected" ELSE ""

\* the contexts the form lists
ListedContexts == {0 - 1, 0, 1, 2, 3, 5, 7, 10, 15}

\* contextOptions
ContextOptions(context) ==
    LET listed == << Option(<<"-", "1">>, IntSelected(1, context)),
                     Option(<<"0">>, IntSelected(0, context)),
                     Option(<<"1">>, IntSelected(1, context)),
                     Option(<<"2">>, IntSelected(2, context)),
                     Option(<<"3">>, IntSelected(3, context)),
                     Option(<<"5">>, IntSelected(5, context)),
                     Option(<<"7">>, IntSelected(7, context)),
                     Option(<<"1", "0">>, IntSelected(10, context)),
                     Option(<<"1", "5">>, IntSelected(15, context)) >>
    IN  IF context \in ListedContexts THEN listed
        ELSE Append(listed, Option(Itoa(context), "selected"))

\* the ages the form lists, in hours
ListedAges == <<6, 12, 24, 48, 168, 336>>

\* maxAgeOptions
MaxAgeOptions(maxAge) ==
    LET listed == [i \in 1..Len(ListedAges) |->
                     Option(Itoa(ListedAges[i]) \o <<"h">>,
                            DurationSelected(ListedAges[i] * Hour, maxAge))]
    IN  IF \E i \in 1..Len(ListedAges) : maxAge = ListedAges[i] * Hour THEN listed
        ELSE IF maxAge = 0 THEN Append(listed, Option(<<"0">>, "selected"))
        ELSE Append(listed, Option(DurationString(maxAge), "selected"))

\* searchTypeOptions
SearchTypeOptions(searchType) ==
    [i \in 1..Len(SearchTypes) |->
       Option(SearchTypes[i], IF SearchTypes[i] = searchType THEN "selected" ELSE "")]

PageStart == [t |-> "pagestart"]
EmptyPage == [t |-> "emptypage"]
PageEnd == [t |-> "pageend"]
DivOpen == [t |-> "divopen"]
DivClose == [t |-> "divclose"]

\* htmlIndexForm with its arguments
IndexForm(search, maxAge, context, searchType) ==
    [t |-> "form",
     search |-> HTMLEscape(search),
     maxAgeOptions |-> MaxAgeOptions(maxAge),
     contextOptions |-> ContextOptions(context),
     searchTypeOptions |-> SearchTypeOptions(searchType)]

\* (variant: context 0 is shown as a summary)
UseContextPositive(context) == context > 0
\* `if index.Context >= 0`
UseContext(context) == context >= 0

\* the in-page notice of a failed search, as the format string spells it
ErrorNotice(err) ==
    [t |-> "alert",
     open |-> "<p class=\"alert alert-danger>",
     text |-> HTMLEscape(<<err>>),
     close |-> "</p>\""]

\* the line that reports a finished search
FoundLine(n) == [t |-> "found", count |-> n]

\* (variant: the search is reported as finished whatever it returned)
PageTailOfSuccess(err, n) == <<FoundLine(n), DivClose, PageEnd>>
\* what handleIndex writes after the renderer returned err and n
PageTail(err, n) ==
    IF err # NoErr THEN <<ErrorNotice(err), PageEnd>>
    ELSE <<FoundLine(n), DivClose, PageEnd>>

\* http.Error's body for a request that does not parse
BadInput(err) == <<"Bad input: ", err>>

\* ------------------------------------------------------ the event source
Event(name, matches, moreLines) ==
    [name |-> name, matches |-> matches, moreLines |-> moreLines]

SeqsUpTo(S, n) == UNION {[1..k -> S] : k \in 0..n}

\* sourceIDs as the search backend reports them: names of indexed artifacts
GroupIDs == {"a", "b", "x"}
\* sourceIDs as the callback's `name string` admits them: any string, the
\* empty one included
AnyIDs == {"", "a"}
GroupMatches == {<< <<" ">> >>, << <<"a">> >>, << <<"a">>, <<"b">> >>}
LineSet == {<<>>, <<" ">>, <<"a">>, <<"<", " ">>}
OneLine == << <<"a">> >>

\* the number of events that continue the block of the event before them
Repeats(es) == Cardinality({i \in 2..Len(es) : es[i].name = es[i - 1].name})

\* executeGrep: the events it may hand to the callback next
NextEvents ==
    CASE profile = "group" ->
           IF Len(events) < MaxEvents
           THEN {Event(n, m, 0) : n \in GroupIDs, m \in GroupMatches} ELSE {}
      [] profile = "anyid" ->
           IF Len(events) < MaxEvents
           THEN {Event(n, m, 0) : n \in AnyIDs, m \in GroupMatches} ELSE {}
      [] profile = "lines" ->
           IF Len(events) < MaxLineEvents
           THEN {Event("a", m, k) : m \in SeqsUpTo(LineSet, MaxLines), k \in {0, 2}}
           ELSE {}
      [] profile = "stream" ->
           IF Len(events) < MaxStream
           THEN {Event(ToString(Len(events) + 1), OneLine, 0)} ELSE {}
      [] profile = "cadence" ->
           IF Len(events) < MaxCadence
           THEN {Event(ToString(Len(events) + 1), OneLine, 0)}
                \cup (IF Len(events) > 0 /\ Repeats(events) < MaxRepeat
                      THEN {Event(events[Len(events)].name, OneLine, 0)} ELSE {})
           ELSE {}
      [] profile = "request" ->
           IF Len(events) < MaxRequestEvents
           THEN {Event("a", OneLine, 0)} ELSE {}
      [] profile = "burst" ->
           IF Len(events) < MaxBurst
           THEN {Event(ToString(Len(events) + 1), OneLine, 0)}
                \cup (IF Len(events) > 0
                      THEN {Event(events[Len(events)].name, OneLine, 0)} ELSE {})
           ELSE {}

\* ------------------------------------------------------------------ Init
FormValues(search, type, name, maxAge, context) ==
    [search |-> search, type |-> type, name |-> name, maxAge |-> maxAge,
     context |-> context]

\* one pattern and nothing else, asking for the default context or for links
PlainRequests ==
    {FormValues(<< <<"p">> >>, "", <<>>, <<>>, c) : c \in {<<>>, <<"-", "1">>}}

RequestSearches == {<<>>, << <<"p">> >>, << <<>>, <<"p">> >>}
RequestTypes == {"", "junit", "build-log", "all", "xml"}
RequestNames == {<<>>, <<"e", "2", "e">>, <<"(", "a">>}
RequestMaxAges ==
    {<<>>, <<"0">>, <<"6", "h">>, <<"9", "0", "m">>, <<"2", "0", "0", "h">>,
     <<"4", "0", "0", "h">>, <<"-", "1", "h">>, <<"7", "d">>}
RequestContexts ==
    {<<>>, <<"-", "1">>, <<"0">>, <<"1">>, <<"4">>, <<"1", "5">>, <<"1", "6">>,
     <<"-", "2">>, <<"x">>}

\* the requests a client may send
Requests(p) ==
    IF p = "request"
    THEN {FormValues(s, t, n, a, c) :
            s \in RequestSearches, t \in RequestTypes, n \in RequestNames,
            a \in RequestMaxAges, c \in RequestContexts}
    ELSE PlainRequests

\* the maximum ages a server may be configured with (0: none)
ServerMaxAges(p) == IF p = "request" THEN {0, 12 * Hour, 336 * Hour} ELSE {0}

InitLocals(p) ==
    /\ profile = p
    /\ req \in Requests(p)
    /\ mode \in {"text", "chart"}
    /\ oMaxAge \in ServerMaxAges(p)
    /\ index = NilIndex
    /\ parseErr = NoErr
    /\ status = 0
    /\ reply = <<>>
    /\ head = <<>>
    /\ tail = <<>>
    /\ invoked = <<>>
    /\ renderer = "none"
    /\ pc = "request"
    /\ events = <<>>
    /\ count = 0
    /\ lineCount = 0
    /\ currentLines = 0
    /\ lastName = ""
    /\ lookups = <<>>
    /\ out = <<>>
    /\ sent = <<>>
    /\ bwErr = NoErr
    /\ flushesInBlock = 0
    /\ grepErr = NoErr
    /\ ret = 0
    /\ retErr = NoErr

Init == InitLocals("group")
InitAnyID == InitLocals("anyid")
InitLines == InitLocals("lines")
InitStream == InitLocals("stream")
InitCadence == InitLocals("cadence")
InitBurst == InitLocals("burst")
InitRequest == InitLocals("request")

\* --------------------------------------------------------------- actions
\* handleIndex up to the point where executeGrep starts to report events
HandleIndex ==
    /\ pc = "request"
    /\ mode = "text"
    /\ LET parsed == ParseRequest(req, "text", oMaxAge)
           search == IF Len(parsed.index.search) = 0 THEN << <<>> >>
                     ELSE parsed.index.search
           form == IndexForm(search[1], parsed.index.maxAge, parsed.index.context,
                             parsed.index.searchType)
           chosen == IF UseContext(parsed.index.context) THEN "context" ELSE "summary"
       IN  /\ parseErr' = parsed.err
           /\ IF parsed.err # NoErr
              THEN /\ index' = parsed.index
                   /\ status' = 400
                   /\ reply' = BadInput(parsed.err)
                   /\ pc' = "responded"
                   /\ UNCHANGED <<head, invoked, renderer, out>>
              ELSE IF Len(search[1]) = 0
              THEN /\ index' = [parsed.index EXCEPT !.search = search]
                   /\ status' = 200
                   /\ head' = <<PageStart, form, EmptyPage, PageEnd>>
                   /\ pc' = "responded"
                   /\ UNCHANGED <<reply, invoked, renderer, out>>
              ELSE /\ index' = [parsed.index EXCEPT !.search = search]
                   /\ status' = 200
                   /\ head' = <<PageStart, form, Flush, DivOpen>>
                   /\ renderer' = chosen
                   /\ invoked' = Append(invoked, chosen)
                   /\ out' = IF chosen = "summary" THEN <<TableOpen>> ELSE <<>>
                   /\ pc' = "streaming"
                   /\ UNCHANGED reply
    /\ UNCHANGED <<profile, req, mode, oMaxAge, tail, events, count, lineCount,
                   currentLines, lastName, lookups, sent, bwErr, flushesInBlock,
                   grepErr, ret, retErr>>

\* parseRequest called with mode "chart"
ParseChartRequest ==
    /\ pc = "request"
    /\ mode = "chart"
    /\ index' = ParseRequest(req, "chart", oMaxAge).index
    /\ parseErr' = ParseRequest(req, "chart", oMaxAge).err
    /\ pc' = "responded"
    /\ UNCHANGED <<profile, req, mode, oMaxAge, status, reply, head, tail,
                   invoked, renderer, events, count, lineCount, currentLines,
                   lastName, lookups, out, sent, bwErr, flushesInBlock, grepErr,
                   ret, retErr>>

\* handleIndex after the renderer returned
HandleIndexReturn ==
    /\ pc = "done"
    /\ tail' = PageTail(retErr, ret)
    /\ pc' = "responded"
    /\ UNCHANGED <<profile, req, mode, oMaxAge, index, parseErr, status, reply,
                   head, invoked, renderer, events, count, lineCount,
                   currentLines, lastName, lookups, out, sent, bwErr,
                   flushesInBlock, grepErr, ret, retErr>>

\* the `if count == 5 || count%50 == 0 { bw.Flush() }` that opens both
\* callbacks; `ok`: whether w accepts a write
EntryFlush(ok) ==
    IF FlushDue(count)
    THEN /\ sent' = BufioFlush(out, sent, bwErr, ok)[1]
         /\ bwErr' = BufioFlush(out, sent, bwErr, ok)[2]
    ELSE UNCHANGED <<sent, bwErr>>

\* the callback of renderWithContext, called with one event
ContextMatch(e, ok) ==
    /\ pc = "streaming"
    /\ renderer = "context"
    /\ e \in NextEvents
    /\ EntryFlush(ok)
    /\ LET flushed == IF FlushDue(count) THEN Append(out, Flush) ELSE out
           same == SameBlock(lastName, e.name)
           result == MetadataFor(e.name)
           opened == IF same THEN Append(flushed, Separator)
                     ELSE Append(ContextClose(flushed, count),
                                 ContextHeader(result, StartTime))
           hit == HitText(e.matches, e.moreLines)
       IN  /\ out' = Append(opened, hit)
           /\ lastName' = e.name
           /\ count' = IF same THEN count ELSE count + 1
           /\ lookups' = IF same THEN lookups ELSE Append(lookups, e.name)
           /\ lineCount' = lineCount + Len(hit.lines)
           /\ flushesInBlock' = IF ~same THEN 0
                                ELSE IF FlushDue(count) THEN flushesInBlock + 1
                                ELSE flushesInBlock
    /\ events' = Append(events, e)
    /\ UNCHANGED <<requestVars, renderer, pc, currentLines, grepErr, ret, retErr>>

\* renderWithContext after executeGrep returned err
ContextReturn(err, ok) ==
    /\ pc = "streaming"
    /\ renderer = "context"
    /\ out' = FinalFlush(ContextClose(out, count))
    /\ sent' = BufioFlush(ContextClose(out, count), sent, bwErr, ok)[1]
    /\ bwErr' = BufioFlush(ContextClose(out, count), sent, bwErr, ok)[2]
    /\ grepErr' = err
    /\ ret' = count
    /\ retErr' = ReturnedErr(err)
    /\ pc' = "done"
    /\ UNCHANGED <<requestVars, renderer, events, count, lineCount,
                   currentLines, lastName, lookups, flushesInBlock>>

\* the callback of renderSummary, called with one event
SummaryMatch(e, ok) ==
    /\ pc = "streaming"
    /\ renderer = "summary"
    /\ e \in NextEvents
    /\ EntryFlush(ok)
    /\ LET flushed == IF FlushDue(count) THEN Append(out, Flush) ELSE out
           same == SameBlock(lastName, e.name)
           result == MetadataFor(e.name)
           skipped == ~same /\ NoJobURI(result)
           closed == IF count > 0 THEN flushed \o <<HitsCell(currentLines), RowClose>>
                     ELSE flushed
           carried == IF count > 0 THEN 0 ELSE currentLines
       IN  /\ lastName' = e.name
           /\ lookups' = IF same THEN lookups ELSE Append(lookups, e.name)
           /\ out' = IF same \/ skipped THEN flushed
                     ELSE Append(closed, SummaryRow(result, StartTime))
           /\ count' = IF same \/ skipped THEN count ELSE count + 1
           /\ currentLines' = IF skipped THEN currentLines
                              ELSE IF same THEN NextHits(currentLines, e.matches)
                              ELSE NextHits(carried, e.matches)
           /\ flushesInBlock' = IF ~same THEN 0
                                ELSE IF FlushDue(count) THEN flushesInBlock + 1
                                ELSE flushesInBlock
    /\ events' = Append(events, e)
    /\ UNCHANGED <<requestVars, renderer, pc, lineCount, grepErr, ret, retErr>>

\* renderSummary after executeGrep returned err
SummaryReturn(err, ok) ==
    /\ pc = "streaming"
    /\ renderer = "summary"
    /\ out' = FinalFlush(SummaryClose(out, count, currentLines))
    /\ sent' = BufioFlush(SummaryClose(out, count, currentLines), sent, bwErr, ok)[1]
    /\ bwErr' = BufioFlush(SummaryClose(out, count, currentLines), sent, bwErr, ok)[2]
    /\ grepErr' = err
    /\ ret' = count
    /\ retErr' = ReturnedErr(err)
    /\ pc' = "done"
    /\ UNCHANGED <<requestVars, renderer, events, count, lineCount,
                   currentLines, lastName, lookups, flushesInBlock>>

\* ------------------------------------------------------------------ Next
\* the steps of the renderers
RenderNext ==
    \/ \E e \in NextEvents, ok \in SinkOutcomes : ContextMatch(e, ok)
    \/ \E err \in {NoErr} \cup Errors, ok \in SinkOutcomes : ContextReturn(err, ok)
    \/ \E e \in NextEvents, ok \in SinkOutcomes : SummaryMatch(e, ok)
    \/ \E err \in {NoErr} \cup Errors, ok \in SinkOutcomes : SummaryReturn(err, ok)

Next ==
    \/ HandleIndex
    \/ ParseChartRequest
    \/ RenderNext
    \/ HandleIndexReturn

Spec == Init /\ [][Next]_vars
SpecAnyID == InitAnyID /\ [][Next]_vars
SpecLines == InitLines /\ [][Next]_vars
SpecStream == InitStream /\ [][Next]_vars
SpecCadence == InitCadence /\ [][Next]_vars
SpecBurst == InitBurst /\ [][Next]_vars
SpecRequest == InitRequest /\ [][Next]_vars

\* ------------------------------------------------- what the claims speak of
\* the writes of one kind, in order
Writes(kind) == SelectSeq(out, LAMBDA w : w.t = kind)

RECURSIVE RunLength(_)
\* the length of the first block of es: its maximal initial run of one sourceID
RunLength(es) ==
    IF Len(es) <= 1 THEN Len(es)
    ELSE IF es[2].name = es[1].name THEN 1 + RunLength(Tail(es))
    ELSE 1

RECURSIVE Blocks(_)
\* the blocks of es in order, each with its sourceID and its number of events
Blocks(es) ==
    IF Len(es) = 0 THEN <<>>
    ELSE LET k == RunLength(es)
         IN  <<[name |-> es[1].name, size |-> k]>> \o Blocks(SubSeq(es, k + 1, Len(es)))

\* the blocks whose sourceID resolves to metadata with a job URL
ResolvableBlocks(es) == SelectSeq(Blocks(es), LAMBDA b : b.name \notin Unknown)

Sizes(blocks) == [i \in 1..Len(blocks) |-> blocks[i].size]
HitCounts == [i \in 1..Len(Writes("hits")) |-> Writes("hits")[i].n]
Names(es) == [i \in 1..Len(es) |-> es[i].name]

\* C1: renderSummary, every sourceID resolving to a job URL: when it returns,
\* one row was written per block, the hit counts written are the blocks'
\* numbers of events, in order, and the returned count is the number of rows.
C1_RowPerBlock ==
    (renderer = "summary" /\ pc = "done"
        /\ \A i \in 1..Len(events) : events[i].name \notin Unknown)
    => /\ Len(Writes("row")) = Len(Blocks(events))
       /\ HitCounts = Sizes(Blocks(events))
       /\ ret = Len(Writes("row"))

\* events A, A, B, one of them carrying two lines: rows with counts 2 and 1
C1_Witness ==
    /\ renderer = "summary" /\ pc = "done"
    /\ Names(events) = <<"a", "a", "b">>
    /\ Len(events[1].matches) = 2
    /\ HitCounts = <<2, 1>>
    /\ ret = 2

\* C2: renderSummary: when it returns, the rows are those of the blocks that
\* have a job URL, each with exactly its own number of events; a block
\* without a job URL adds no row, nothing to the returned count and nothing
\* to any row's hit count.
C2_SkippedBlockLeavesNoTrace ==
    (renderer = "summary" /\ pc = "done")
    => /\ Len(Writes("row")) = Len(ResolvableBlocks(events))
       /\ HitCounts = Sizes(ResolvableBlocks(events))
       /\ ret = Len(ResolvableBlocks(events))

\* C3: renderWithContext, for any sourceID value: one header per block, one
\* separator per event that continues a block, every separator between two
\* hits, every header directly followed by its first hit, and nothing but a
\* flush before the first header.
C3_HeaderAndSeparators ==
    renderer = "context"
    => /\ Len(Writes("header")) = Len(Blocks(events))
       /\ Len(Writes("separator")) = Len(events) - Len(Blocks(events))
       /\ \A i \in 1..Len(out) :
            /\ out[i].t = "separator"
               => i > 1 /\ out[i - 1].t = "hit" /\ i < Len(out) /\ out[i + 1].t = "hit"
            /\ out[i].t = "header" => i < Len(out) /\ out[i + 1].t = "hit"
            /\ out[i].t \in {"separator", "hit"}
               => \E j \in 1..(i - 1) : out[j].t = "header"

\* the writes other than the Flush calls
Markup == SelectSeq(out, LAMBDA w : w.t # "flush")

\* an event with at least one line that is not blank
HasText(e) == \E i \in 1..Len(e.matches) : \E j \in 1..Len(e.matches[i]) : e.matches[i][j] # " "

\* C4: renderWithContext, sourceIDs pairwise distinct and every event with
\* non-empty lines: when it returns, the markup is one header, hit and
\* closing per event, in order, and the returned count is the number of
\* events.
C4_BlockPerDistinctEvent ==
    (renderer = "context" /\ pc = "done"
        /\ (\A i, j \in 1..Len(events) : i # j => events[i].name # events[j].name)
        /\ (\A k \in 1..Len(events) : HasText(events[k])))
    => /\ Len(Markup) = 3 * Len(events)
       /\ \A i \in 1..Len(events) :
            /\ Markup[3 * i - 2].t = "header"
            /\ Markup[3 * i - 1].t = "hit" /\ Len(Markup[3 * i - 1].lines) > 0
            /\ Markup[3 * i].t = "blockclose"
       /\ ret = Len(events)

\* three events of three sources, each with text, rendered and returned
C4_Witness ==
    /\ renderer = "context" /\ pc = "done"
    /\ Len(events) = 3
    /\ {events[i].name : i \in 1..3} = {"a", "b", "x"}
    /\ \A i \in 1..3 : HasText(events[i])
    /\ Len(Writes("blockclose")) = 3
    /\ ret = 3

\* the blocks a renderer opens for es: every block in the context view, the
\* blocks with a job URL in the summary view
OpenedBlocks(es) == IF renderer = "context" THEN Blocks(es) ELSE ResolvableBlocks(es)

\* every block opened in `out` is closed, once, before the next one opens
AllClosedOnce ==
    LET open == IF renderer = "context" THEN "header" ELSE "row"
        close == IF renderer = "context" THEN "blockclose" ELSE "rowclose"
        m == SelectSeq(out, LAMBDA w : w.t \in {open, close})
    IN  /\ Len(m) % 2 = 0
        /\ \A i \in 1..Len(m) : m[i].t = IF i % 2 = 1 THEN open ELSE close

\* C6: both renderers, the event source failing after a prefix of its events:
\* the renderer has returned and takes no further step, every block opened is
\* closed exactly once, the returned count is the number of blocks of the
\* delivered prefix, and the returned error is the source's error.
C6_ErrorAfterPrefix ==
    (pc = "done" /\ grepErr # NoErr)
    => /\ ~ENABLED RenderNext
       /\ AllClosedOnce
       /\ ret = Len(OpenedBlocks(events))
       /\ retErr = grepErr

\* an error after three events of two sources: count 2, both blocks closed
C6_Witness ==
    /\ pc = "done" /\ grepErr \in Errors /\ retErr = grepErr
    /\ renderer = "context"
    /\ Len(events) = 3 /\ Len(events) < MaxEvents
    /\ Names(events) = <<"a", "a", "b">>
    /\ ret = 2
    /\ Len(Writes("blockclose")) = 2

\* the header written for metadata that was not found
EmptyHeader(h) ==
    /\ h.fileType = <<>> /\ h.trigger = <<>> /\ h.href = <<>>
    /\ h.name = <<>> /\ h.number = 0 /\ h.age = <<>>

Blank(line) == \A j \in 1..Len(line) : line[j] = " "

RECURSIVE DropLeadingBlank(_)
DropLeadingBlank(lines) ==
    IF Len(lines) > 0 /\ Blank(Head(lines)) THEN DropLeadingBlank(Tail(lines)) ELSE lines

RECURSIVE DropTrailingBlank(_)
DropTrailingBlank(lines) ==
    IF Len(lines) > 0 /\ Blank(lines[Len(lines)])
    THEN DropTrailingBlank(SubSeq(lines, 1, Len(lines) - 1)) ELSE lines

\* a line list without its blank leading and trailing lines, the rest kept
StripBlankEnds(lines) == DropTrailingBlank(DropLeadingBlank(lines))

\* C5: renderWithContext: every event writes one hit (after a header or a
\* separator), and the hit's lines are the event's lines without the blank
\* leading and trailing ones, interior blank lines kept in place (each line
\* escaped, trailing spaces aside).
C5_InteriorBlankLinesKept ==
    renderer = "context"
    => /\ Len(Writes("hit")) = Len(events)
       /\ \A i \in 1..Len(Writes("hit")) :
            LET kept == StripBlankEnds(events[i].matches)
            IN  Writes("hit")[i].lines
                    = [k \in 1..Len(kept) |-> HTMLEscape(TrimRight(kept[k]))]

\* the places in `out` where a block is opened
Opens == {i \in 1..Len(out) : out[i].t \in {"header", "row"}}
\* the number of Flush calls made so far
Flushes == Len(Writes("flush"))
\* what a step appended to `out`
Written == SubSeq(out', Len(out) + 1, Len(out'))
\* a step in which the callback handles one more event
HandlesEvent == Len(events') = Len(events) + 1
\* a step in which the renderer returns
Returns == pc = "streaming" /\ pc' = "done"

\* C8 as stated: once a second block has been opened, a Flush call lies
\* between the opening of the first block and the opening of the second.
C8_FlushAfterFirstBlock ==
    Cardinality(Opens) >= 2
    => LET first == CHOOSE i \in Opens : \A j \in Opens : i <= j
           second == CHOOSE i \in Opens \ {first} : \A j \in Opens \ {first} : i <= j
       IN  \E k \in first..second : out[k].t = "flush"

\* C8 amended: the callback calls Flush exactly when it is entered with 0, 5
\* or a multiple of 50 blocks opened, before anything else it writes (so the
\* first event's Flush precedes the first block), and the only other Flush is
\* the one call made when the renderer returns.
C8_FlushOnEntryAtFiveAndFifties ==
    [][/\ HandlesEvent
          => /\ Flushes' - Flushes = IF count = 5 \/ count % 50 = 0 THEN 1 ELSE 0
             /\ \A i \in 2..Len(Written) : Written[i].t # "flush"
             /\ Len(events) = 0 => Len(Written) > 0 /\ Written[1].t = "flush"
       /\ Returns
          => /\ Flushes' - Flushes = 1
             /\ Written[Len(Written)].t = "flush"]_vars

\* 51 blocks opened in the context view, the 51st entered with 50 open, and
\* the Flush calls of the entries with 0, 5 and 50
C8_Witness ==
    /\ renderer = "context" /\ pc = "streaming"
    /\ count = 51 /\ Len(events) = 51
    /\ Flushes = 3
    /\ \E k \in 1..Len(out) :
         /\ out[k].t = "flush"
         /\ Cardinality({i \in Opens : i < k}) = 50

\* C9: N single-hit events of pairwise distinct sourceIDs: the renderer has
\* made at least floor(N/50) + 1 Flush calls when it returns.
C9_FlushLowerBound ==
    (pc = "done"
        /\ (\A i, j \in 1..Len(events) : i # j => events[i].name # events[j].name)
        /\ (\A k \in 1..Len(events) : Len(events[k].matches) = 1))
    => Flushes >= (Len(events) \div 50) + 1

\* 120 sources rendered: at least 4 Flush calls
C9_Witness ==
    /\ pc = "done" /\ Len(events) = 120
    /\ \A i, j \in 1..Len(events) : i # j => events[i].name # events[j].name
    /\ Flushes >= 4

\* C10 as stated: the event source stopping with the cancellation error
\* while a block is open, the renderer returns without writing anything more
\* and without calling Flush.
C10_NoOutputAfterCancel ==
    [][(Returns /\ grepErr' = Canceled /\ count > 0) => out' = out]_vars

\* C10 amended: the event source stopping with the cancellation error while
\* a block is open, the renderer consumes no further event, writes the open
\* block's closing markup, calls Flush once and returns the error.
C10_CancelClosesAndFlushes ==
    [][(Returns /\ grepErr' = Canceled /\ count > 0)
        => /\ events' = events
           /\ Written = IF renderer = "context" THEN <<BlockClose, Flush>>
                        ELSE <<HitsCell(currentLines), RowClose, Flush>>
           /\ retErr' = Canceled
           /\ ret' = count]_vars

\* a cancelled run that had a block open: closing markup, then the Flush
C10_Witness ==
    /\ pc = "done" /\ grepErr = Canceled /\ retErr = Canceled
    /\ renderer = "context"
    /\ count = 2 /\ Len(events) = 3
    /\ Len(out) >= 2
    /\ out[Len(out) - 1] = BlockClose
    /\ out[Len(out)] = Flush

\* C11 as stated: once a write to the sink has failed, no further event is
\* consumed, no further metadata lookup is made and no further write is
\* attempted.
C11_AbortOnSinkError ==
    [][bwErr # NoErr => events' = events /\ lookups' = lookups /\ out' = out]_vars

RECURSIVE OpenElements(_, _)
\* the elements left open after the writes m, starting with `stack` open
\* (innermost last); <<"mismatch">> when a closing tag closes something else
OpenElements(m, stack) ==
    IF Len(m) = 0 THEN stack
    ELSE LET w == Head(m)
             n == Len(stack)
         IN  CASE w.t = "tableopen" -> OpenElements(Tail(m), stack \o <<"table", "tbody">>)
               [] w.t = "row" -> OpenElements(Tail(m), Append(stack, "tr"))
               [] w.t = "header" -> OpenElements(Tail(m), stack \o <<"div", "pre">>)
               [] w.t = "rowclose" ->
                    IF n >= 1 /\ stack[n] = "tr"
                    THEN OpenElements(Tail(m), SubSeq(stack, 1, n - 1))
                    ELSE <<"mismatch">>
               [] w.t = "blockclose" ->
                    IF n >= 2 /\ stack[n] = "pre" /\ stack[n - 1] = "div"
                    THEN OpenElements(Tail(m), SubSeq(stack, 1, n - 2))
                    ELSE <<"mismatch">>
               [] OTHER -> OpenElements(Tail(m), stack)

\* C14: when a renderer returns, after any event sequence and with or
\* without an error of the event source, every element it opened is closed,
\* properly nested; with zero events it wrote no block and no row.
C14_BalancedFragment ==
    pc = "done"
    => /\ OpenElements(Markup, <<>>) = <<>>
       /\ Len(events) = 0 => Writes("header") = <<>> /\ Writes("row") = <<>>

\* C16 as stated: of the events that continue one block, at most one makes
\* the callback call Flush.
C16_OneFlushPerBlock == flushesInBlock <= 1

\* C17 as stated: a render call whose event source ended cleanly and whose
\* Flush failed returns that failure.
C17_FlushFailureReturned ==
    (pc = "done" /\ grepErr = NoErr /\ bwErr # NoErr) => retErr = bwErr

BlockNames(es) == [i \in 1..Len(Blocks(es)) |-> Blocks(es)[i].name]

\* C18: both renderers: MetadataFor is called once per block, in order, and
\* never for an event that continues the open block; a sourceID that comes
\* back after another one is looked up again, opens a new block and counts
\* again in the returned count.
C18_LookupPerBlock ==
    /\ lookups = BlockNames(events)
    /\ count = Len(OpenedBlocks(events))
    /\ Cardinality(Opens) = Len(OpenedBlocks(events))
    /\ pc = "done" => ret = Len(OpenedBlocks(events))

\* a, a, b, a: three lookups, three blocks, count 3 in either view
C18_Witness ==
    /\ pc = "done"
    /\ Names(events) = <<"a", "a", "b", "a">>
    /\ lookups = <<"a", "b", "a">>
    /\ Cardinality(Opens) = 3
    /\ ret = 3

\* ------------------------------------------------------ claims on requests
\* handleIndex has taken the request up
Answered == mode = "text" /\ pc # "request"
\* the first pattern of the request, empty when it names none
FirstPattern(r) == IF Len(r.search) = 0 THEN <<>> ELSE r.search[1]

\* C12: for a validated request with a non-empty first pattern handleIndex
\* calls exactly one renderer, once: renderWithContext iff the context is at
\* least 0, renderSummary iff it is -1; for an empty first pattern it calls
\* neither and no search is run.
C12_RendererSelection ==
    Answered
    => IF parseErr = NoErr /\ Len(FirstPattern(req)) > 0
       THEN /\ Len(invoked) = 1
            /\ invoked[1] = "context" <=> index.context >= 0
            /\ invoked[1] = "summary" <=> index.context = 0 - 1
            /\ renderer = invoked[1]
       ELSE /\ invoked = <<>> /\ renderer = "none"
            /\ events = <<>> /\ lookups = <<>> /\ out = <<>>

\* a request for context 0, answered by the context view alone
C12_Witness ==
    /\ pc = "responded" /\ mode = "text" /\ parseErr = NoErr
    /\ req.context = <<"0">>
    /\ invoked = <<"context">>
    /\ Len(events) = 1

InvalidType(r) == r.type \notin {"junit", "build-log", "all", ""}
InvalidName(r) == Len(r.name) > 0 /\ ~Compiles(r.name)
InvalidMaxAge(r) ==
    Len(r.maxAge) > 0 /\ (~ParseDuration(r.maxAge).ok \/ ParseDuration(r.maxAge).d < 0)
InvalidContext(r) ==
    /\ Len(r.context) > 0
    /\ \/ ~Atoi(r.context).ok
       \/ Atoi(r.context).n < 0 - 1
       \/ Atoi(r.context).n > 15
Invalid(r) == InvalidType(r) \/ InvalidName(r) \/ InvalidMaxAge(r) \/ InvalidContext(r)

\* C13: a request with an invalid type, name, maxAge or context: parseRequest
\* returns an error and the nil descriptor, and handleIndex answers 400 with
\* no page output, no event consumed and no renderer called.
C13_InvalidRejected ==
    (pc # "request" /\ Invalid(req))
    => /\ parseErr # NoErr
       /\ index = NilIndex
       /\ mode = "text"
          => /\ pc = "responded"
             /\ status = 400
             /\ Len(reply) > 0
             /\ head = <<>> /\ tail = <<>> /\ sent = <<>> /\ out = <<>>
             /\ events = <<>> /\ lookups = <<>> /\ invoked = <<>>

\* a request whose only fault is a context of 16, answered with 400
C13_Witness ==
    /\ pc = "responded" /\ mode = "text"
    /\ req.context = <<"1", "6">>
    /\ ~InvalidType(req) /\ ~InvalidName(req) /\ ~InvalidMaxAge(req)
    /\ Len(FirstPattern(req)) > 0
    /\ status = 400

\* what the page holds once the handler returned
Response == head \o sent \o tail
Kinds(page) == [i \in 1..Len(page) |-> page[i].t]

\* C15: the renderer returned to handleIndex: the status stays 200, what the
\* renderer wrote is in the response in its order, closing markup included;
\* after an error the notice with the error's text follows it and the page
\* end follows the notice, with no line reporting success; without an error
\* the line reporting success is written and no notice.
C15_ErrorNoticeInPage ==
    (pc = "responded" /\ invoked # <<>>)
    => /\ status = 200
       /\ reply = <<>>
       /\ sent = Markup
       /\ AllClosedOnce
       /\ Response = head \o Markup \o tail
       /\ IF retErr # NoErr
          THEN /\ Kinds(tail) = <<"alert", "pageend">>
               /\ tail[1].text = <<retErr>>
          ELSE /\ Kinds(tail) = <<"found", "divclose", "pageend">>
               /\ tail[1].count = ret

\* a search canceled after two events of one source: the block, its close,
\* then the notice
C15_Witness ==
    /\ pc = "responded" /\ renderer = "context" /\ retErr = Canceled
    /\ Len(events) = 2
    /\ Kinds(Response) = <<"pagestart", "form", "flush", "divopen", "header",
                           "hit", "separator", "hit", "blockclose", "alert",
                           "pageend">>

\* the ceiling of maxAge for the request's mode
Ceiling ==
    LET configured == IF oMaxAge = 0 THEN 7 * 24 * Hour ELSE oMaxAge
    IN  IF mode = "chart" /\ configured > 24 * Hour THEN 24 * Hour ELSE configured
\* the maxAge the request asks for, 0 when it names none
Requested == IF Len(req.maxAge) = 0 THEN 0 ELSE ParseDuration(req.maxAge).d

\* C19: a request parseRequest accepted: the descriptor's maxAge is not 0 and
\* not above the ceiling of the mode; it is the ceiling when the request names
\* no maxAge, 0, or more than the ceiling, and the requested value otherwise.
C19_MaxAgeNormalized ==
    (pc # "request" /\ parseErr = NoErr)
    => /\ index.maxAge # 0
       /\ index.maxAge <= Ceiling
       /\ index.maxAge = IF Requested = 0 \/ Requested > Ceiling THEN Ceiling
                         ELSE Requested

\* chart mode on a server configured with 14 days: 200h becomes 24h
C19_Witness ==
    /\ pc = "responded" /\ mode = "chart" /\ parseErr = NoErr
    /\ oMaxAge = 336 * Hour
    /\ req.maxAge = <<"2", "0", "0", "h">>
    /\ index.maxAge = 24 * Hour

\* the options of a selector that are marked selected
SelectedOptions(opts) == {i \in 1..Len(opts) : opts[i].selected = "selected"}

\* C20: the page of a request parseRequest accepted: exactly one option of
\* the context selector is marked selected, the one whose value is the
\* descriptor's context.
C20_OneContextSelected ==
    (Answered /\ parseErr = NoErr)
    => LET opts == head[2].contextOptions
       IN  \E i \in 1..Len(opts) :
              /\ SelectedOptions(opts) = {i}
              /\ Atoi(opts[i].value).n = index.context

====
